---- MODULE Spec2Model ----
(***************************************************************************)
(* Model of desktop/src-tauri/src/main.rs: the bootstrap of the desktop    *)
(* shell (builder, two plugins, setup hook, run) and the tray-icon event   *)
(* listener that toggles the main window.  The host runtime is the         *)
(* environment: it creates the windows of the manifest, may fail to start, *)
(* calls the setup hook, dispatches tray events, and answers the window    *)
(* calls is_visible / hide / show / set_focus, each of which may fail.     *)
(***************************************************************************)
EXTENDS Integers, Sequences, FiniteSets, TLC

\* Number of tray events the host dispatches in one run.
MaxEvents == 4

\* The variants of tauri::tray::TrayIconEvent; the listener names only Click.
TrayIconEvents == {"Click", "DoubleClick", "Enter", "Move", "Leave"}

\* Window labels the application manifest may define.
ManifestLabels == {"main", "splash"}

VARIABLES
    pc,           \* position of main(): start, builder, plugin1, plugin2,
                  \* configured, ready, loop, exited, aborted
    desktop,      \* cfg(desktop) of the build
    windows,      \* labels of the windows the host created from the manifest
    plugins,      \* plugins registered on the builder, in order
    setupHook,    \* a setup closure is registered on the builder
    runResult,    \* outcome of starting the runtime: none, Ok, Err
    setupResult,  \* outcome of the setup closure: none, Ok, panic
    listeners,    \* tray-icon event listeners registered on the app
    steps,        \* log of the startup operations, in order
    window,       \* host-owned state of the main window
    dispatched,   \* tray events the host has dispatched
    hist,         \* one record per tray event the listener handled
    abortReason   \* none, expect, unwrap, listener

vars == <<pc, desktop, windows, plugins, setupHook, runResult, setupResult,
          listeners, steps, window, dispatched, hist, abortReason>>

----------------------------------------------------------------------------
\* Host window service.

\* window.is_visible(): Ok(current visibility), or Err when the call fails.
IsVisible(w, ok) ==
    IF ~ok THEN "Err" ELSE IF w.visible THEN "OkTrue" ELSE "OkFalse"

\* Effect on the window of one hide / show / set_focus call; a failed call
\* leaves the window as it was.
ApplyRequest(w, req, ok) ==
    IF ~ok THEN w
    ELSE IF req = "hide" THEN [visible |-> FALSE, focused |-> FALSE]
    ELSE IF req = "show" THEN [w EXCEPT !.visible = TRUE]
    ELSE [w EXCEPT !.focused = w.visible]

RECURSIVE ApplyRequests(_, _, _)
ApplyRequests(w, reqs, results) ==
    IF reqs = <<>> THEN w
    ELSE ApplyRequests(ApplyRequest(w, Head(reqs), Head(results)),
                       Tail(reqs), Tail(results))

\* app.get_webview_window(label)
GetWebviewWindow(label) == IF label \in windows THEN "Some" ELSE "None"

----------------------------------------------------------------------------
\* The code of main.rs.

UnwrapOrTrue(q) == IF q = "Err" THEN TRUE ELSE q = "OkTrue"

\* is_visible().unwrap_or(false)
UnwrapOrFalse(q) == IF q = "Err" THEN FALSE ELSE q = "OkTrue"

TrayHandlerNeverHide(event, q, results) ==
    [reqs |-> IF event = "Click" THEN <<"show", "set_focus">> ELSE <<>>,
     panicked |-> FALSE]

TrayHandlerFocusFirst(event, q, results) ==
    [reqs |-> IF event = "Click"
              THEN IF UnwrapOrFalse(q) THEN <<"hide">>
                   ELSE <<"set_focus", "show">>
              ELSE <<>>,
     panicked |-> FALSE]

TrayHandlerAnyEvent(event, q, results) ==
    [reqs |-> IF UnwrapOrFalse(q) THEN <<"hide">> ELSE <<"show", "set_focus">>,
     panicked |-> FALSE]

TrayHandlerHideOnly(event, q, results) ==
    [reqs |-> IF event = "Click" THEN <<"hide">> ELSE <<>>,
     panicked |-> FALSE]

TrayHandlerShowOnVisible(event, q, results) ==
    [reqs |-> IF event = "Click"
              THEN IF UnwrapOrFalse(q) THEN <<"show", "set_focus">>
                   ELSE <<"hide">>
              ELSE <<>>,
     panicked |-> FALSE]

\* hide().unwrap() / show().unwrap() / set_focus().unwrap()
TrayHandlerUnwrap(event, q, results) ==
    LET reqs == IF event = "Click"
                THEN IF UnwrapOrFalse(q) THEN <<"hide">>
                     ELSE <<"show", "set_focus">>
                ELSE <<>>
        bad  == {i \in DOMAIN reqs : ~results[i]}
        stop == IF bad = {} THEN Len(reqs)
                ELSE CHOOSE i \in bad : \A j \in bad : i <= j
    IN  [reqs |-> SubSeq(reqs, 1, stop), panicked |-> bad # {}]

\* if window_clone.show().is_ok() { let _ = window_clone.set_focus(); }
TrayHandlerFocusIfShown(event, q, results) ==
    [reqs |-> IF event = "Click"
              THEN IF UnwrapOrFalse(q) THEN <<"hide">>
                   ELSE IF results[1] THEN <<"show", "set_focus">>
                   ELSE <<"show">>
              ELSE <<>>,
     panicked |-> FALSE]

\* The closure given to on_tray_icon_event: the window calls it issues for
\* one event, in order.  Every result is discarded (let _ = ...), so the
\* closure never panics and the calls do not depend on the results.
TrayHandler(event, q, results) ==
    [reqs |-> IF event = "Click"
              THEN IF UnwrapOrFalse(q) THEN <<"hide">>
                   ELSE <<"show", "set_focus">>
              ELSE <<>>,
     panicked |-> FALSE]

SetupHookGraceful(isDesktop, found) ==
    IF isDesktop /\ found = "Some"
    THEN [steps |-> <<"lookup:Some", "clone", "on_tray_icon_event">>,
          listeners |-> 1, result |-> "Ok"]
    ELSE IF isDesktop
    THEN [steps |-> <<"lookup:None">>, listeners |-> 0, result |-> "Ok"]
    ELSE [steps |-> <<>>, listeners |-> 0, result |-> "Ok"]

SetupHookUngated(isDesktop, found) ==
    IF found = "Some"
    THEN [steps |-> <<"lookup:Some", "clone", "on_tray_icon_event">>,
          listeners |-> 1, result |-> "Ok"]
    ELSE [steps |-> <<"lookup:None">>, listeners |-> 0, result |-> "panic"]

\* The setup closure: what it does given cfg(desktop) and the result of
\* get_webview_window("main").
SetupHook(isDesktop, found) ==
    IF isDesktop
    THEN IF found = "Some"
         THEN [steps |-> <<"lookup:Some", "clone", "on_tray_icon_event">>,
               listeners |-> 1, result |-> "Ok"]
         ELSE [steps |-> <<"lookup:None">>, listeners |-> 0,
               result |-> "panic"]
    ELSE [steps |-> <<>>, listeners |-> 0, result |-> "Ok"]

ExpectRecovering(r) == "ready"

\* run(...).expect("error while running tauri application")
Expect(r) == IF r = "Err" THEN "aborted" ELSE "ready"

----------------------------------------------------------------------------
Init ==
    /\ pc = "start"
    /\ desktop \in BOOLEAN
    /\ windows \in SUBSET ManifestLabels
    /\ plugins = <<>>
    /\ setupHook = FALSE
    /\ runResult = "none"
    /\ setupResult = "none"
    /\ listeners = 0
    /\ steps = <<>>
    /\ window \in {w \in [visible : BOOLEAN, focused : BOOLEAN] :
                     /\ w.focused => w.visible
                     /\ w.visible => "main" \in windows}
    /\ dispatched = 0
    /\ hist = <<>>
    /\ abortReason = "none"

\* tauri::Builder::default()
BuilderDefault ==
    /\ pc = "start"
    /\ pc' = "builder"
    /\ steps' = Append(steps, "builder")
    /\ UNCHANGED <<desktop, windows, plugins, setupHook, runResult,
                   setupResult, listeners, window, dispatched, hist,
                   abortReason>>

\* .plugin(tauri_plugin_global_shortcut::Builder::new().build())
PluginGlobalShortcut ==
    /\ pc = "builder"
    /\ pc' = "plugin1"
    /\ plugins' = Append(plugins, "global-shortcut")
    /\ steps' = Append(steps, "plugin:global-shortcut")
    /\ UNCHANGED <<desktop, windows, setupHook, runResult, setupResult,
                   listeners, window, dispatched, hist, abortReason>>

\* .plugin(tauri_plugin_shell::init())
PluginShell ==
    /\ pc = "plugin1"
    /\ pc' = "plugin2"
    /\ plugins' = Append(plugins, "shell")
    /\ steps' = Append(steps, "plugin:shell")
    /\ UNCHANGED <<desktop, windows, setupHook, runResult, setupResult,
                   listeners, window, dispatched, hist, abortReason>>

\* .setup(|app| ...): the closure is stored, not run.
Setup ==
    /\ pc = "plugin2"
    /\ pc' = "configured"
    /\ setupHook' = TRUE
    /\ steps' = Append(steps, "setup:registered")
    /\ UNCHANGED <<desktop, windows, plugins, runResult, setupResult,
                   listeners, window, dispatched, hist, abortReason>>

\* .run(generate_context!()).expect(...): the runtime starts or fails to.
Run ==
    /\ pc = "configured"
    /\ \E r \in {"Ok", "Err"} :
        /\ runResult' = r
        /\ pc' = Expect(r)
        /\ abortReason' = IF Expect(r) = "aborted" THEN "expect" ELSE abortReason
        /\ steps' = Append(steps, "run:" \o r)
    /\ UNCHANGED <<desktop, windows, plugins, setupHook, setupResult,
                   listeners, window, dispatched, hist>>

\* The started runtime calls the setup closure once, then enters its loop.
RunSetup ==
    /\ pc = "ready"
    /\ setupHook
    /\ LET out == SetupHook(desktop, GetWebviewWindow("main")) IN
        /\ setupResult' = out.result
        /\ listeners' = listeners + out.listeners
        /\ steps' = steps \o <<"setup:enter">> \o out.steps
                      \o <<"setup:" \o out.result>>
                      \o (IF out.result = "Ok" THEN <<"loop">> ELSE <<>>)
        /\ pc' = IF out.result = "Ok" THEN "loop" ELSE "aborted"
        /\ abortReason' = IF out.result = "Ok" THEN abortReason ELSE "unwrap"
    /\ UNCHANGED <<desktop, windows, plugins, setupHook, runResult, window,
                   dispatched, hist>>

\* The host dispatches one tray event to the registered listener.
TrayIconEvent ==
    /\ pc = "loop"
    /\ listeners > 0
    /\ dispatched < MaxEvents
    /\ \E event \in TrayIconEvents, qok \in BOOLEAN, r1 \in BOOLEAN,
          r2 \in BOOLEAN :
        LET q       == IsVisible(window, qok)
            h       == TrayHandler(event, q, <<r1, r2>>)
            results == SubSeq(<<r1, r2>>, 1, Len(h.reqs))
            after   == ApplyRequests(window, h.reqs, results)
        IN  /\ window' = after
            /\ hist' = Append(hist,
                   [event |-> event,
                    query |-> IF event = "Click" THEN q ELSE "none",
                    reqs |-> h.reqs, results |-> results,
                    pre |-> window, post |-> after])
            /\ pc' = IF h.panicked THEN "aborted" ELSE "loop"
            /\ abortReason' = IF h.panicked THEN "listener" ELSE abortReason
    /\ dispatched' = dispatched + 1
    /\ UNCHANGED <<desktop, windows, plugins, setupHook, runResult,
                   setupResult, listeners, steps>>

\* A tray event on a build that registered no listener: nothing handles it.
TrayIconEventNoListener ==
    /\ pc = "loop"
    /\ listeners = 0
    /\ dispatched < MaxEvents
    /\ dispatched' = dispatched + 1
    /\ UNCHANGED <<pc, desktop, windows, plugins, setupHook, runResult,
                   setupResult, listeners, steps, window, hist, abortReason>>

\* The host ends its loop; run returns Ok and main returns.
Exit ==
    /\ pc = "loop"
    /\ pc' = "exited"
    /\ UNCHANGED <<desktop, windows, plugins, setupHook, runResult,
                   setupResult, listeners, steps, window, dispatched, hist,
                   abortReason>>

Next ==
    \/ BuilderDefault
    \/ PluginGlobalShortcut
    \/ PluginShell
    \/ Setup
    \/ Run
    \/ RunSetup
    \/ TrayIconEvent
    \/ TrayIconEventNoListener
    \/ Exit

Spec == Init /\ [][Next]_vars

----------------------------------------------------------------------------
TypeOK ==
    /\ pc \in {"start", "builder", "plugin1", "plugin2", "configured",
               "ready", "loop", "exited", "aborted"}
    /\ listeners \in 0..1
    /\ dispatched \in 0..MaxEvents
    /\ Len(hist) <= dispatched

----------------------------------------------------------------------------
\* Helpers over the record of handled events.

Clicks == {i \in DOMAIN hist : hist[i].event = "Click"}

AllOk(i) == \A k \in DOMAIN hist[i].results : hist[i].results[k]

AllFailed(i) == \A k \in DOMAIN hist[i].results : ~hist[i].results[k]

\* Click j is the first click handled after click i.
NextClick(i, j) ==
    /\ i \in Clicks /\ j \in Clicks /\ i < j
    /\ \A k \in Clicks : ~(i < k /\ k < j)

Flipped(i) ==
    /\ hist[i].post.visible = ~hist[i].pre.visible
    /\ hist[i].post.visible => hist[i].post.focused

Occurrences(s, x) == Cardinality({i \in DOMAIN s : s[i] = x})

Precedes(s, x, y) ==
    \A j \in DOMAIN s : s[j] = y => \E i \in DOMAIN s : i < j /\ s[i] = x

----------------------------------------------------------------------------
\* C1 (as stated): a Click handled while the window is visible issues
\* exactly one hide request and no show or focus request.
C1_VisibleClickHides ==
    \A i \in Clicks : hist[i].pre.visible => hist[i].reqs = <<"hide">>

\* C1 (amended): a Click handled while the window is visible, and whose
\* visibility query succeeds, issues exactly one hide request and no show
\* or focus request.
C1_VisibleClickHidesWhenQueryOk ==
    \A i \in Clicks :
        (hist[i].pre.visible /\ hist[i].query # "Err")
            => hist[i].reqs = <<"hide">>

C1_Witness ==
    \E i \in Clicks : hist[i].pre.visible /\ hist[i].query = "OkTrue"

\* C2: a Click handled while the window is hidden issues a show request
\* followed by a focus request, show first, and no hide request.
C2_HiddenClickShowsThenFocuses ==
    \A i \in Clicks :
        ~hist[i].pre.visible => hist[i].reqs = <<"show", "set_focus">>

C2_Witness ==
    \E i \in Clicks : ~hist[i].pre.visible /\ Len(hist[i].results) = 2

\* C3: a tray event that is not Click issues no hide, show or focus request
\* and leaves the window as it was.
C3_NonClickIsNoOp ==
    \A i \in DOMAIN hist :
        hist[i].event # "Click"
            => /\ hist[i].reqs = <<>>
               /\ hist[i].post = hist[i].pre

C3_Witness ==
    \E i \in DOMAIN hist, j \in DOMAIN hist :
        /\ hist[i].event = "DoubleClick" /\ hist[i].pre.visible
        /\ hist[j].event = "Move" /\ ~hist[j].pre.visible

\* C4: on a desktop build without a window named "main", startup aborts in
\* the setup hook: setup never returns success, no tray listener is
\* registered, the event loop is never reached and no tray event is handled.
C4_MissingMainWindowAborts ==
    (desktop /\ "main" \notin windows)
        => /\ setupResult # "Ok"
           /\ listeners = 0
           /\ pc \notin {"loop", "exited"}
           /\ dispatched = 0 /\ hist = <<>>
           /\ Occurrences(steps, "on_tray_icon_event") = 0
           /\ Occurrences(steps, "loop") = 0
           /\ Occurrences(steps, "setup:enter") > 0
                => (pc = "aborted" /\ abortReason = "unwrap")

C4_Witness ==
    /\ desktop /\ "main" \notin windows /\ "splash" \in windows
    /\ pc = "aborted" /\ abortReason = "unwrap"

\* The run started with the window visible and has handled only Clicks.
OnlyClicksFromVisible ==
    /\ hist # <<>>
    /\ hist[1].pre.visible
    /\ \A i \in DOMAIN hist : hist[i].event = "Click"

\* The i-th click of a run started visible hides on odd i, shows on even i.
ToggleStep(i) ==
    /\ hist[i].pre.visible = (i % 2 = 1)
    /\ hist[i].post.visible = (i % 2 = 0)
    /\ hist[i].reqs = IF i % 2 = 1 THEN <<"hide">> ELSE <<"show", "set_focus">>

\* C5 (as stated): starting from a visible window, repeated clicks drive
\* visible -> hidden -> visible -> hidden, each click flipping the
\* visibility the previous click produced, with the same requests each time.
C5_ClicksToggle ==
    OnlyClicksFromVisible => \A i \in DOMAIN hist : ToggleStep(i)

\* C5 (amended): the same, for clicks whose visibility query and hide/show/
\* focus requests all succeed.
C5_ClicksToggleWhenCallsSucceed ==
    (/\ OnlyClicksFromVisible
     /\ \A i \in DOMAIN hist : hist[i].query # "Err" /\ AllOk(i))
        => \A i \in DOMAIN hist : ToggleStep(i)

C5_Witness ==
    /\ OnlyClicksFromVisible
    /\ Len(hist) = 4
    /\ \A i \in DOMAIN hist : hist[i].query # "Err" /\ AllOk(i)

\* Some hide, show or focus request of event i failed.
RequestFailed(i) == \E k \in DOMAIN hist[i].results : ~hist[i].results[k]

\* C6: a failed hide, show or focus request does not propagate: setup has
\* reported success, the process has not aborted, the tray listener is still
\* registered, and every tray event dispatched since was handled.
C6_RequestFailuresSwallowed ==
    (\E i \in DOMAIN hist : RequestFailed(i))
        => /\ setupResult = "Ok"
           /\ pc \in {"loop", "exited"}
           /\ abortReason = "none"
           /\ listeners = 1
           /\ Len(hist) = dispatched

C6_Witness ==
    \E i \in DOMAIN hist :
        /\ RequestFailed(i) /\ AllFailed(i) /\ Len(hist[i].results) = 2
        /\ i < Len(hist)
        /\ hist[i + 1].event = "Click"

\* C7: when the runtime fails to start the process aborts at once through
\* expect: the setup hook never runs, no tray event is dispatched or
\* handled, and no hide, show or focus request is issued.
C7_RunFailureIsFatal ==
    runResult = "Err"
        => /\ pc = "aborted"
           /\ abortReason = "expect"
           /\ setupResult = "none"
           /\ listeners = 0
           /\ dispatched = 0
           /\ hist = <<>>

C7_Witness == runResult = "Err" /\ pc = "aborted" /\ "main" \in windows /\ desktop

\* C8 (as stated): a click whose requests failed leaves the visibility as
\* it was, and the next click whose requests succeed flips it (visible to
\* hidden, hidden to visible and focused).
C8_FailedClickThenRetry ==
    \A i \in Clicks :
        AllFailed(i)
            => /\ hist[i].post.visible = hist[i].pre.visible
               /\ \A j \in Clicks :
                    (NextClick(i, j) /\ AllOk(j)) => Flipped(j)

\* C8 (amended): a click whose requests failed leaves the visibility as it
\* was, and the next click whose visibility query and requests succeed
\* flips it (visible to hidden, hidden to visible and focused); this is the
\* transition the failed click requested, unless the failed click's own
\* visibility query failed on a visible window.
C8_FailedClickThenRetryQueryOk ==
    \A i \in Clicks :
        AllFailed(i)
            => /\ hist[i].post.visible = hist[i].pre.visible
               /\ \A j \in Clicks :
                    (NextClick(i, j) /\ AllOk(j) /\ hist[j].query # "Err")
                        => /\ Flipped(j)
                           /\ (hist[i].query # "Err" \/ ~hist[i].pre.visible)
                                => hist[j].reqs = hist[i].reqs

C8_Witness ==
    \E i \in Clicks, j \in Clicks :
        /\ NextClick(i, j) /\ AllFailed(i) /\ AllOk(j)
        /\ hist[j].query # "Err"
        /\ hist[i].pre.visible

\* C9: the tray listener is registered at most once, inside the setup hook
\* and after the lookup of "main" succeeded; the setup hook runs at most
\* once, after both plugins are registered and before the event loop, and no
\* tray event is handled before the registration.  Without cfg(desktop) the
\* hook looks up no window, registers no listener and returns success.
C9_ListenerRegisteredOnceInSetup ==
    /\ listeners <= 1
    /\ Occurrences(steps, "on_tray_icon_event") = listeners
    /\ Occurrences(steps, "setup:enter") <= 1
    /\ Precedes(steps, "setup:enter", "on_tray_icon_event")
    /\ Precedes(steps, "lookup:Some", "on_tray_icon_event")
    /\ desktop => Precedes(steps, "on_tray_icon_event", "setup:Ok")
    /\ Precedes(steps, "plugin:global-shortcut", "setup:enter")
    /\ Precedes(steps, "plugin:shell", "setup:enter")
    /\ Precedes(steps, "setup:Ok", "loop")
    /\ pc \in {"loop", "exited"} => Occurrences(steps, "loop") = 1
    /\ hist # <<>> => (listeners = 1 /\ Occurrences(steps, "loop") = 1)
    /\ listeners = 1 => (desktop /\ GetWebviewWindow("main") = "Some")
    /\ (~desktop /\ Occurrences(steps, "setup:enter") = 1)
        => /\ Occurrences(steps, "lookup:Some") = 0
           /\ Occurrences(steps, "lookup:None") = 0
           /\ listeners = 0
           /\ setupResult = "Ok"

C9_Witness ==
    /\ desktop /\ listeners = 1 /\ hist # <<>> /\ hist[1].event = "Click"

\* C10: when the visibility query fails while handling a Click the window
\* is treated as not visible: the handler issues show then focus and no
\* hide, whatever the real visibility, so a visible window is not hidden.
C10_QueryFailureMeansShow ==
    \A i \in Clicks :
        hist[i].query = "Err"
            => /\ hist[i].reqs = <<"show", "set_focus">>
               /\ hist[i].pre.visible => hist[i].post.visible

C10_Witness ==
    \E i \in Clicks, j \in Clicks :
        /\ hist[i].query = "Err" /\ hist[i].pre.visible
        /\ hist[j].query = "Err" /\ ~hist[j].pre.visible

\* C11: every handled Click issues either exactly one hide, or exactly one
\* show followed by exactly one focus, never a mix and never nothing; in
\* particular a failed show is still followed by the focus request of the
\* same invocation.
C11_FocusFollowsShowWhateverItsResult ==
    \A i \in Clicks :
        /\ hist[i].reqs \in {<<"hide">>, <<"show", "set_focus">>}
        /\ Len(hist[i].results) = Len(hist[i].reqs)
        /\ (hist[i].reqs[1] = "show" /\ ~hist[i].results[1])
            => /\ Len(hist[i].reqs) = 2
               /\ hist[i].reqs[2] = "set_focus"
               /\ Occurrences(hist[i].reqs, "set_focus") = 1

C11_Witness ==
    \E i \in Clicks, j \in Clicks :
        /\ hist[i].reqs[1] = "show" /\ ~hist[i].results[1]
        /\ hist[i].results[2]
        /\ hist[j].reqs[1] = "show" /\ ~hist[j].results[1]
        /\ ~hist[j].results[2]
====
